---------------------------- MODULE Spec2Model ----------------------------
(***************************************************************************)
(* Credit-card document pipeline: upload to blob storage, analysis by the  *)
(* prebuilt document model, validation and rendering of the fields.        *)
(*                                                                         *)
(* Python values are represented as follows.                               *)
(*   - a str that is only tested or compared (blob names, configuration    *)
(*     values, exception texts) is a TLA+ string, None is the atom None;   *)
(*   - a str that is trimmed (field contents) is a sequence of one         *)
(*     character strings, None is NoneStr;                                 *)
(*   - a dict is a function whose DOMAIN is the set of its keys;           *)
(*   - a URL is a record of the parts the f-string is built from.          *)
(***************************************************************************)
EXTENDS Integers, Sequences, FiniteSets, TLC

\* ------------------------------------------------------------------ bounds

\* Longest field value drawn for validate_credit_card_field.
MaxStrLen == 3
\* Most documents in one analysis result.
MaxDocs == 2
\* Longest uploaded payload, in bytes.
MaxBytes == 1
\* Requests served by one process in one behaviour.
MaxRequests == 2

\* --------------------------------------------------------------- constants

None == "None"
NoneStr == <<"None">>

Whitespace == {" ", "\t"}
Chars == {" ", "\t", "A", "B"}
Bytes == {1, 2}

RECURSIVE StringsOfLen(_)
StringsOfLen(n) ==
    IF n = 0 THEN {<<>>}
    ELSE {Append(s, c) : s \in StringsOfLen(n - 1), c \in Chars}

Strings(n) == UNION {StringsOfLen(k) : k \in 0..n}

\* The fields show_image_and_validation renders, in rendering order.
SchemaFields ==
    <<"CardHolderName", "CardNumber", "ExpirationDate",
      "CardVerificationValue", "PaymentNetwork", "IssuingBank">>

SchemaSet == {SchemaFields[i] : i \in 1..Len(SchemaFields)}

\* A field the prebuilt model may return that the page does not render.
VendorField == "CustomerServicePhoneNumber"

NotDetected == <<"N", "a", "o", " ", "d", "e", "t", "e", "c", "t", "a", "d", "o">>

\* ------------------------------------------------------ field validation

RECURSIVE LStrip(_)
LStrip(s) ==
    IF s = <<>> THEN s
    ELSE IF Head(s) \in Whitespace THEN LStrip(Tail(s)) ELSE s

RECURSIVE RStrip(_)
RStrip(s) ==
    IF s = <<>> THEN s
    ELSE IF s[Len(s)] \in Whitespace THEN RStrip(SubSeq(s, 1, Len(s) - 1)) ELSE s

\* str.strip()
Strip(s) == RStrip(LStrip(s))

\* validate_credit_card_field with the trimming left out.
ValidateFieldNoStrip(field_value, field_name) ==
    field_value # NoneStr /\ field_value # <<>>

\* validate_credit_card_field(field_value, field_name)
ValidateCreditCardField(field_value, field_name) ==
    field_value # NoneStr /\ Strip(field_value) # <<>>

\* dict.get(key): None for a missing key
DictGet(d, key) == IF key \in DOMAIN d THEN d[key] ELSE NoneStr

\* render_field_validation: the marker and the text shown for one field
RenderFieldValidation(field_name, field_value, field_display_name) ==
    IF ValidateCreditCardField(field_value, field_name)
    THEN [marker |-> "valid", text |-> field_value]
    ELSE [marker |-> "invalid", text |-> NotDetected]

\* The count taking every value of the mapping as valid.
ValidFieldsEveryKey(credit_card_info) == Cardinality(DOMAIN credit_card_info)

\* sum(1 for value in credit_card_info.values() if validate_credit_card_field(value, ""))
ValidFields(credit_card_info) ==
    Cardinality({k \in DOMAIN credit_card_info :
                    ValidateCreditCardField(credit_card_info[k], "")})

\* len(credit_card_info)
TotalFields(credit_card_info) == Cardinality(DOMAIN credit_card_info)

\* The second column show_image_and_validation renders: the counts card, the
\* six field lines and the banner; an empty mapping renders the banner only.
ShowImageAndValidation(credit_card_info) ==
    IF DOMAIN credit_card_info # {}
    THEN LET valid_fields == ValidFields(credit_card_info)
             total_fields == TotalFields(credit_card_info)
         IN  [card   |-> <<valid_fields, total_fields>>,
              fields |-> [i \in 1..Len(SchemaFields) |->
                            RenderFieldValidation(
                                SchemaFields[i],
                                DictGet(credit_card_info, SchemaFields[i]),
                                SchemaFields[i])],
              banner |-> IF valid_fields = total_fields
                         THEN "success" ELSE "partial"]
    ELSE [card |-> <<>>, fields |-> <<>>, banner |-> "none"]

\* ------------------------------------------------------ field extraction

\* A field object of the result: has_content is hasattr(field, 'content').
HasContent(field_content) ==
    field_content.has_content /\ field_content.content # NoneStr

\* The document loop keeping the first value of a field instead of the last.
ExtractDocumentKeepFirst(credit_card_info, document) ==
    IF ~document.has_fields \/ DOMAIN document.fields = {}
    THEN credit_card_info
    ELSE LET hit == {k \in DOMAIN document.fields : HasContent(document.fields[k])}
         IN  [k \in DOMAIN credit_card_info \cup hit |->
                IF k \in DOMAIN credit_card_info THEN credit_card_info[k]
                ELSE document.fields[k].content]

\* The inner loop of _extract_fields_from_result over one document.
ExtractDocument(credit_card_info, document) ==
    IF ~document.has_fields \/ DOMAIN document.fields = {}
    THEN credit_card_info
    ELSE LET hit == {k \in DOMAIN document.fields : HasContent(document.fields[k])}
         IN  [k \in DOMAIN credit_card_info \cup hit |->
                IF k \in hit THEN document.fields[k].content
                ELSE credit_card_info[k]]

RECURSIVE ExtractDocuments(_, _)
ExtractDocuments(credit_card_info, documents) ==
    IF documents = <<>> THEN credit_card_info
    ELSE ExtractDocuments(ExtractDocument(credit_card_info, Head(documents)),
                          Tail(documents))

\* _extract_fields_from_result(result)
ExtractFieldsFromResult(result) ==
    IF ~result.has_documents \/ result.documents = <<>>
    THEN <<>>
    ELSE ExtractDocuments(<<>>, result.documents)

\* ------------------------------------------------------------------ state

VARIABLES
    env,              \* the environment values Config.get reads
    containers,       \* storage provider: the containers that exist
    blobs,            \* storage provider: blob name -> stored bytes
    requests,         \* requests started so far in this process
    pc,               \* position of the request in the code
    caller,           \* who called the component: the page handler or a direct caller
    file,             \* upload_file_to_blob's file argument
    blob_name,        \* upload_file_to_blob's blob_name argument
    use_sas,          \* upload_file_to_blob's use_sas argument
    calls,            \* provider calls issued by this request, in order
    blob_url,         \* upload's return value and analyze's argument
    result,           \* poller.result()
    credit_card_info, \* analyze's return value
    rendered,         \* what show_image_and_validation rendered
    messages,         \* what the user was shown (st.error, st.success, boxes)
    raised,           \* the exception raised inside a component, and the step raising it
    escaped,          \* the exception that left a component's boundary, if any
    sign_result,      \* how generate_blob_sas ended, when it was called
    replaced,         \* storage provider: what the last upload_blob replaced
    field_value,      \* validate_credit_card_field's arguments and result
    field_name,
    is_valid

vars == <<env, containers, blobs, requests, pc, caller, file, blob_name, use_sas,
          calls, blob_url, result, credit_card_info, rendered, messages, raised,
          escaped, sign_result, replaced, field_value, field_name, is_valid>>

\* ------------------------------------------------------------- value sets

\* not x, for a str or None
Falsy(x) == x = None \/ x = ""

EnvKeys ==
    {"AZURE_STORAGE_CONTAINER_NAME", "AZURE_STORAGE_STORAGE_NAME",
     "AZURE_STORAGE_API_KEY", "AZURE_DOCS_ENDPOINT", "AZURE_DOCS_API_KEY"}

\* An environment variable is unset, set to the empty string, or set.
EnvValues == {None, "", "set"}

Envs == [EnvKeys -> EnvValues]

\* Config.get(key)
ConfigGet(key) == env[key]

NoFile == [present |-> FALSE, bytes |-> <<>>, pos |-> 0]

RECURSIVE PayloadsOfLen(_)
PayloadsOfLen(n) ==
    IF n = 0 THEN {<<>>}
    ELSE {Append(s, b) : s \in PayloadsOfLen(n - 1), b \in Bytes}

Payloads == UNION {PayloadsOfLen(k) : k \in 0..MaxBytes}

\* An uploaded file object: its bytes and its stream position (at the start,
\* or at the end after a reader consumed it).
FileObjects ==
    UNION {{[present |-> TRUE, bytes |-> b, pos |-> p] : p \in {0, Len(b)}} :
              b \in Payloads}

\* bool(file): io.BytesIO (and its subclass UploadedFile) defines neither
\* __bool__ nor __len__, so only None is false.
FileTruthy(f) == f.present

BlobNames == {None, "", "card.png"}

NoUrl == [kind |-> "None"]
EmptyUrl == [kind |-> "empty"]

\* bool(url) for a str or None
UrlTruthy(u) == u.kind \notin {"None", "empty"}

NoExc == [cls |-> "None", text |-> ""]

ValueError(text) == [cls |-> "ValueError", text |-> text]

\* What a provider call may do besides succeeding: fail with an AzureError
\* (network, auth, quota) or with another exception.
ProviderFaults ==
    {[cls |-> "AzureError", text |-> "provider error text"],
     [cls |-> "RuntimeError", text |-> "transport error text"]}

ResourceExistsError == [cls |-> "ResourceExistsError", text |-> "already exists"]

NotRaised == [cls |-> "None", text |-> "", at |-> "nowhere"]

\* e as raised by the step the request is at
Raised(e) == [cls |-> e.cls, text |-> e.text, at |-> pc]

\* isinstance(e, cls) over the classes in play
IsInstance(e, cls) ==
    \/ e.cls = cls
    \/ cls = "Exception" /\ e.cls # "None"
    \/ cls = "AzureError" /\ e.cls = "ResourceExistsError"

\* ---------------------------------------------------------- blob service

\* The except clauses of upload_file_to_blob without the last one.
UploadExceptNoGeneric(e) ==
    IF IsInstance(e, "ValueError")
    THEN [caught |-> TRUE, prefix |-> "Configuration error: "]
    ELSE IF IsInstance(e, "AzureError")
    THEN [caught |-> TRUE, prefix |-> "Azure error during file upload: "]
    ELSE [caught |-> FALSE, prefix |-> ""]

\* The except clauses of upload_file_to_blob: which one takes e.
UploadExcept(e) ==
    IF IsInstance(e, "ValueError")
    THEN [caught |-> TRUE, prefix |-> "Configuration error: "]
    ELSE IF IsInstance(e, "AzureError")
    THEN [caught |-> TRUE, prefix |-> "Azure error during file upload: "]
    ELSE IF IsInstance(e, "Exception")
    THEN [caught |-> TRUE, prefix |-> "Unexpected error uploading file to Blob Storage: "]
    ELSE [caught |-> FALSE, prefix |-> ""]

\* The handler's own except clause: st.error(f"... {str(e)}")
HandlerExceptMessage(e) ==
    [widget |-> "error", text |-> "Erro ao processar arquivo: ", detail |-> e.text]

\* Where control goes when upload_file_to_blob returns.
UploadReturn == IF caller = "handler" THEN "h_uploaded" ELSE "done"

\* upload_file_to_blob raised e inside its try block.
UploadRaise(e) ==
    LET h == UploadExcept(e)
    IN  /\ raised' = Raised(e)
        /\ IF h.caught
           THEN /\ blob_url' = NoUrl
                /\ messages' = Append(messages,
                       [widget |-> "error", text |-> h.prefix, detail |-> e.text])
                /\ escaped' = escaped
                /\ pc' = UploadReturn
           ELSE /\ blob_url' = blob_url
                /\ escaped' = e
                /\ messages' = IF caller = "handler"
                               THEN Append(messages, HandlerExceptMessage(e))
                               ELSE messages
                /\ pc' = "done"

\* The checks of upload_file_to_blob without the one on the configuration.
UploadCheckArgumentsOnly ==
    /\ pc = "u_check"
    /\ IF ~FileTruthy(file) \/ Falsy(blob_name)
       THEN UploadRaise(ValueError("File and blob_name are required"))
       ELSE /\ pc' = "u_container"
            /\ UNCHANGED <<blob_url, messages, raised, escaped>>
    /\ UNCHANGED <<env, containers, blobs, requests, caller, file, blob_name,
                   use_sas, calls, result, credit_card_info, rendered,
                   sign_result, replaced,
                   field_value, field_name, is_valid>>

\* upload_file_to_blob, the argument and configuration checks
UploadCheck ==
    /\ pc = "u_check"
    /\ IF ~FileTruthy(file) \/ Falsy(blob_name)
       THEN UploadRaise(ValueError("File and blob_name are required"))
       ELSE IF \/ Falsy(ConfigGet("AZURE_STORAGE_CONTAINER_NAME"))
               \/ Falsy(ConfigGet("AZURE_STORAGE_STORAGE_NAME"))
       THEN UploadRaise(ValueError("Container and account name are required"))
       ELSE /\ pc' = "u_container"
            /\ UNCHANGED <<blob_url, messages, raised, escaped>>
    /\ UNCHANGED <<env, containers, blobs, requests, caller, file, blob_name,
                   use_sas, calls, result, credit_card_info, rendered,
                   sign_result, replaced,
                   field_value, field_name, is_valid>>

\* container_client.create_container() at the provider
CreateContainer(container_name, fault) ==
    IF fault # NoExc THEN fault
    ELSE IF container_name \in containers THEN ResourceExistsError
    ELSE NoExc

\* _ensure_container_exists: what it raises to upload_file_to_blob
EnsureContainerRaises(container_name, fault) ==
    LET e == CreateContainer(container_name, fault)
    IN  IF IsInstance(e, "ResourceExistsError") THEN NoExc ELSE e

UploadEnsureContainer ==
    /\ pc = "u_container"
    /\ calls' = Append(calls, "create_container")
    /\ \E fault \in ProviderFaults \cup {NoExc} :
        LET container_name == ConfigGet("AZURE_STORAGE_CONTAINER_NAME")
            e == EnsureContainerRaises(container_name, fault)
        IN  IF e # NoExc
            THEN UploadRaise(e) /\ UNCHANGED containers
            ELSE /\ containers' = containers \cup {container_name}
                 /\ pc' = "u_upload"
                 /\ UNCHANGED <<blob_url, messages, raised, escaped>>
    /\ UNCHANGED <<env, blobs, requests, caller, file, blob_name, use_sas,
                   result, credit_card_info, rendered,
                   sign_result, replaced,
                   field_value, field_name, is_valid>>

\* file.seek(0)
SeekStart(f) == [f EXCEPT !.pos = 0]

\* What upload_blob reads from the stream: from its position to its end.
ReadToEnd(f) == SubSeq(f.bytes, f.pos + 1, Len(f.bytes))

\* upload_blob's overwrite argument set to the SDK's default.
OverwriteDefault == FALSE

\* upload_blob(file, overwrite=True)
Overwrite == TRUE

\* blob_client.upload_blob at the provider
UploadBlobRaises(name, fault) ==
    IF fault # NoExc THEN fault
    ELSE IF name \in DOMAIN blobs /\ ~Overwrite THEN ResourceExistsError
    ELSE NoExc

\* The upload returning its URL without the properties fetch.
UploadBlobUnverified ==
    /\ pc = "u_upload"
    /\ calls' = Append(calls, "upload_blob")
    /\ \E fault \in ProviderFaults \cup {NoExc} :
        LET rewound == SeekStart(file)
            data == ReadToEnd(rewound)
            e == UploadBlobRaises(blob_name, fault)
        IN  IF e # NoExc
            THEN /\ UploadRaise(e)
                 /\ file' = rewound
                 /\ UNCHANGED <<blobs, replaced>>
            ELSE /\ blobs' = [n \in DOMAIN blobs \cup {blob_name} |->
                                IF n = blob_name THEN data ELSE blobs[n]]
                 /\ replaced' = IF blob_name \in DOMAIN blobs
                                THEN <<blobs[blob_name]>> ELSE <<>>
                 /\ file' = [rewound EXCEPT !.pos = Len(rewound.bytes)]
                 /\ pc' = "u_url"
                 /\ UNCHANGED <<blob_url, messages, raised, escaped>>
    /\ UNCHANGED <<env, containers, requests, caller, blob_name, use_sas,
                   result, credit_card_info, rendered,
                   sign_result,
                   field_value, field_name, is_valid>>

\* file.seek(0); blob_client.upload_blob(file, overwrite=True)
UploadBlob ==
    /\ pc = "u_upload"
    /\ calls' = Append(calls, "upload_blob")
    /\ \E fault \in ProviderFaults \cup {NoExc} :
        LET rewound == SeekStart(file)
            data == ReadToEnd(rewound)
            e == UploadBlobRaises(blob_name, fault)
        IN  IF e # NoExc
            THEN /\ UploadRaise(e)
                 /\ file' = rewound
                 /\ UNCHANGED <<blobs, replaced>>
            ELSE /\ blobs' = [n \in DOMAIN blobs \cup {blob_name} |->
                                IF n = blob_name THEN data ELSE blobs[n]]
                 /\ replaced' = IF blob_name \in DOMAIN blobs
                                THEN <<blobs[blob_name]>> ELSE <<>>
                 /\ file' = [rewound EXCEPT !.pos = Len(rewound.bytes)]
                 /\ pc' = "u_props"
                 /\ UNCHANGED <<blob_url, messages, raised, escaped>>
    /\ UNCHANGED <<env, containers, requests, caller, blob_name, use_sas,
                   result, credit_card_info, rendered,
                   sign_result,
                   field_value, field_name, is_valid>>

\* blob_client.get_blob_properties()
UploadVerify ==
    /\ pc = "u_props"
    /\ calls' = Append(calls, "get_blob_properties")
    /\ \E fault \in ProviderFaults \cup {NoExc} :
        IF fault # NoExc
        THEN UploadRaise(fault)
        ELSE /\ pc' = "u_url"
             /\ UNCHANGED <<blob_url, messages, raised, escaped>>
    /\ UNCHANGED <<env, containers, blobs, requests, caller, file, blob_name,
                   use_sas, result, credit_card_info, rendered,
                   sign_result, replaced,
                   field_value, field_name, is_valid>>

\* expiration_hours: int = 24
ExpirationHours == 24

SasUrl(account_name, container_name, name) ==
    [kind |-> "sas", account |-> account_name, container |-> container_name,
     blob |-> name, permission |-> "read", expiry_hours |-> ExpirationHours]

\* _get_direct_url
GetDirectUrl(account_name, container_name, name) ==
    [kind |-> "direct", account |-> account_name, container |-> container_name,
     blob |-> name]

\* generate_blob_sas either returns a token or raises (a ValueError or another
\* exception); both except clauses of _generate_sas_url return None.
SignOutcomes == {"ok", "ValueError", "Exception"}

\* The account name and key _generate_sas_url needs are both set.
SigningConfigured ==
    /\ ~Falsy(ConfigGet("AZURE_STORAGE_STORAGE_NAME"))
    /\ ~Falsy(ConfigGet("AZURE_STORAGE_API_KEY"))

\* _generate_sas_url(container_name, blob_name)
GenerateSasUrl(container_name, name, sign) ==
    LET account_name == ConfigGet("AZURE_STORAGE_STORAGE_NAME")
        account_key == ConfigGet("AZURE_STORAGE_API_KEY")
    IN  IF Falsy(account_name) \/ Falsy(account_key) THEN NoUrl
        ELSE IF sign # "ok" THEN NoUrl
        ELSE SasUrl(account_name, container_name, name)

\* The URL choice with no fallback: a failed signing gives no URL.
ChooseUrlNoFallback(sign) ==
    LET container_name == ConfigGet("AZURE_STORAGE_CONTAINER_NAME")
    IN  IF use_sas
        THEN GenerateSasUrl(container_name, blob_name, sign)
        ELSE GetDirectUrl(ConfigGet("AZURE_STORAGE_STORAGE_NAME"),
                          container_name, blob_name)

\* "Return appropriate URL based on configuration"
ChooseUrl(sign) ==
    LET container_name == ConfigGet("AZURE_STORAGE_CONTAINER_NAME")
        account_name == ConfigGet("AZURE_STORAGE_STORAGE_NAME")
        sas_url == IF use_sas
                   THEN GenerateSasUrl(container_name, blob_name, sign)
                   ELSE NoUrl
    IN  IF use_sas /\ UrlTruthy(sas_url) THEN sas_url
        ELSE GetDirectUrl(account_name, container_name, blob_name)

UploadUrl ==
    /\ pc = "u_url"
    /\ \E sign \in SignOutcomes :
        /\ blob_url' = ChooseUrl(sign)
        /\ sign_result' = IF use_sas /\ SigningConfigured THEN sign ELSE "not called"
    /\ pc' = UploadReturn
    /\ UNCHANGED <<env, containers, blobs, requests, caller, file, blob_name,
                   use_sas, calls, result, credit_card_info, rendered, messages,
                   escaped, raised, replaced,
                   field_value, field_name, is_valid>>

\* ------------------------------------------------------ document service

\* The except clauses of analyze_credit_card_image: both return {}.
AnalyzeExcept(e) == IsInstance(e, "ValueError") \/ IsInstance(e, "Exception")

\* Where control goes when analyze_credit_card_image returns.
AnalyzeReturn == IF caller = "handler" THEN "h_analyzed" ELSE "done"

\* analyze_credit_card_image raised e inside its try block.
AnalyzeRaise(e) ==
    /\ raised' = Raised(e)
    /\ IF AnalyzeExcept(e)
       THEN /\ credit_card_info' = <<>>
            /\ escaped' = escaped
            /\ messages' = messages
            /\ pc' = AnalyzeReturn
       ELSE /\ credit_card_info' = credit_card_info
            /\ escaped' = e
            /\ messages' = IF caller = "handler"
                           THEN Append(messages, HandlerExceptMessage(e))
                           ELSE messages
            /\ pc' = "done"

\* analyze_credit_card_image, the argument and configuration checks
AnalyzeCheck ==
    /\ pc = "a_check"
    /\ IF ~UrlTruthy(blob_url)
       THEN AnalyzeRaise(ValueError("blob_url is required"))
       ELSE IF \/ Falsy(ConfigGet("AZURE_DOCS_ENDPOINT"))
               \/ Falsy(ConfigGet("AZURE_DOCS_API_KEY"))
       THEN AnalyzeRaise(ValueError(
                "Azure Document Intelligence credentials not configured"))
       ELSE /\ pc' = "a_client"
            /\ UNCHANGED <<credit_card_info, messages, raised, escaped>>
    /\ UNCHANGED <<env, containers, blobs, requests, caller, file, blob_name,
                   use_sas, calls, blob_url, result, rendered,
                   sign_result, replaced,
                   field_value, field_name, is_valid>>

\* What a constructor may raise on a malformed endpoint or key.
ClientFaults ==
    {ValueError("malformed endpoint"),
     [cls |-> "TypeError", text |-> "key must be a string"]}

\* AzureKeyCredential(api_key); DocumentIntelligenceClient(endpoint, credential)
AnalyzeClient ==
    /\ pc = "a_client"
    /\ \E fault \in ClientFaults \cup {NoExc} :
        IF fault # NoExc
        THEN AnalyzeRaise(fault)
        ELSE /\ pc' = "a_begin"
             /\ UNCHANGED <<credit_card_info, messages, raised, escaped>>
    /\ UNCHANGED <<env, containers, blobs, requests, caller, file, blob_name,
                   use_sas, calls, blob_url, result, rendered,
                   sign_result, replaced,
                   field_value, field_name, is_valid>>

\* The submission tried again after a provider failure.
AnalyzeBeginRetries ==
    /\ pc = "a_begin"
    /\ calls' = Append(calls, "begin_analyze_document")
    /\ \E fault \in ProviderFaults \cup {NoExc} :
        /\ pc' = IF fault # NoExc THEN "a_begin" ELSE "a_poll"
        /\ UNCHANGED <<credit_card_info, messages, raised, escaped>>
    /\ UNCHANGED <<env, containers, blobs, requests, caller, file, blob_name,
                   use_sas, blob_url, result, rendered,
                   sign_result, replaced,
                   field_value, field_name, is_valid>>

\* client.begin_analyze_document(model_id, analyze_request)
AnalyzeBegin ==
    /\ pc = "a_begin"
    /\ calls' = Append(calls, "begin_analyze_document")
    /\ \E fault \in ProviderFaults \cup {NoExc} :
        IF fault # NoExc
        THEN AnalyzeRaise(fault)
        ELSE /\ pc' = "a_poll"
             /\ UNCHANGED <<credit_card_info, messages, raised, escaped>>
    /\ UNCHANGED <<env, containers, blobs, requests, caller, file, blob_name,
                   use_sas, blob_url, result, rendered,
                   sign_result, replaced,
                   field_value, field_name, is_valid>>

\* The field objects a document may carry: without a content attribute, with
\* content None, or with a content string.
FieldObjects(contents) ==
    {[has_content |-> FALSE, content |-> NoneStr],
     [has_content |-> TRUE, content |-> NoneStr]}
        \cup {[has_content |-> TRUE, content |-> c] : c \in contents}

\* The dicts over some of the names.
Dicts(names, values) == UNION {[d -> values] : d \in SUBSET names}

\* A document: without fields (None), or with a fields dict (maybe empty).
Documents(names, contents) ==
    {[has_fields |-> FALSE, fields |-> <<>>]}
        \cup {[has_fields |-> TRUE, fields |-> d] :
                 d \in Dicts(names, FieldObjects(contents))}

\* The sequences over S of length up to n.
SeqsUpTo(S, n) == UNION {[1..k -> S] : k \in 0..n}

\* An analysis result: without documents (None), or with up to n of them.
AnalysisResults(names, contents, n) ==
    {[has_documents |-> FALSE, documents |-> <<>>]}
        \cup {[has_documents |-> TRUE, documents |-> ds] :
                 ds \in SeqsUpTo(Documents(names, contents), n)}

NoResult == [has_documents |-> FALSE, documents |-> <<>>]

\* The results a request of the page may get.
RequestResults == AnalysisResults({"CardNumber"}, {<<"A">>, <<" ">>}, 1)

\* poller.result()
AnalyzePoll ==
    /\ pc = "a_poll"
    /\ calls' = Append(calls, "poller.result")
    /\ \E fault \in ProviderFaults \cup {NoExc} :
        IF fault # NoExc
        THEN AnalyzeRaise(fault) /\ UNCHANGED result
        ELSE /\ result' \in RequestResults
             /\ pc' = "a_extract"
             /\ UNCHANGED <<credit_card_info, messages, raised, escaped>>
    /\ UNCHANGED <<env, containers, blobs, requests, caller, file, blob_name,
                   use_sas, blob_url, rendered,
                   sign_result, replaced,
                   field_value, field_name, is_valid>>

\* credit_card_info = _extract_fields_from_result(result); return credit_card_info
AnalyzeExtract ==
    /\ pc = "a_extract"
    /\ credit_card_info' = ExtractFieldsFromResult(result)
    /\ pc' = AnalyzeReturn
    /\ UNCHANGED <<env, containers, blobs, requests, caller, file, blob_name,
                   use_sas, calls, blob_url, result, rendered, messages, escaped,
                   raised, sign_result, replaced,
                   field_value, field_name, is_valid>>

\* ------------------------------------------------------------------- page

NotRendered == [card |-> <<>>, fields |-> <<>>, banner |-> "not rendered"]

\* configure_interface: a file was chosen; upload_file_to_blob(uploaded_file, file_name)
HandlerRequest ==
    /\ pc = "idle"
    /\ \E uploaded_file \in FileObjects, file_name \in BlobNames \ {None} :
        /\ file' = uploaded_file
        /\ blob_name' = file_name
    /\ use_sas' = TRUE
    /\ caller' = "handler"
    /\ pc' = "u_check"
    /\ UNCHANGED <<env, containers, blobs, requests, calls, blob_url, result,
                   credit_card_info, rendered, messages, escaped,
                   raised, sign_result, replaced,
                   field_value, field_name, is_valid>>

\* The page going on to the validation without calling the analysis.
HandlerUploadedSkipsAnalysis ==
    /\ pc = "h_uploaded"
    /\ IF UrlTruthy(blob_url)
       THEN /\ messages' = Append(messages,
                [widget |-> "success-box", text |-> "enviado com sucesso", detail |-> ""])
            /\ pc' = "h_analyzed"
       ELSE /\ messages' = Append(messages,
                [widget |-> "error-box", text |-> "Erro ao enviar arquivo", detail |-> ""])
            /\ pc' = "done"
    /\ UNCHANGED <<env, containers, blobs, requests, caller, file, blob_name,
                   use_sas, calls, blob_url, result, credit_card_info, rendered,
                   escaped, raised, sign_result, replaced,
                   field_value, field_name, is_valid>>

\* The page calling the analysis whatever upload_file_to_blob returned.
HandlerUploadedAlwaysAnalyzes ==
    /\ pc = "h_uploaded"
    /\ messages' = Append(messages,
            [widget |-> "success-box", text |-> "enviado com sucesso", detail |-> ""])
    /\ pc' = "a_check"
    /\ UNCHANGED <<env, containers, blobs, requests, caller, file, blob_name,
                   use_sas, calls, blob_url, result, credit_card_info, rendered,
                   escaped, raised, sign_result, replaced,
                   field_value, field_name, is_valid>>

\* configure_interface after upload_file_to_blob returned
HandlerUploaded ==
    /\ pc = "h_uploaded"
    /\ IF UrlTruthy(blob_url)
       THEN /\ messages' = Append(messages,
                [widget |-> "success-box", text |-> "enviado com sucesso", detail |-> ""])
            /\ pc' = "a_check"
       ELSE /\ messages' = Append(messages,
                [widget |-> "error-box", text |-> "Erro ao enviar arquivo", detail |-> ""])
            /\ pc' = "done"
    /\ UNCHANGED <<env, containers, blobs, requests, caller, file, blob_name,
                   use_sas, calls, blob_url, result, credit_card_info, rendered,
                   escaped, raised, sign_result, replaced,
                   field_value, field_name, is_valid>>

\* configure_interface after analyze_credit_card_image returned:
\* st.success when something was extracted, then show_image_and_validation
HandlerAnalyzed ==
    /\ pc = "h_analyzed"
    /\ messages' = IF DOMAIN credit_card_info # {}
                   THEN Append(messages,
                        [widget |-> "success", text |-> "Analise concluida", detail |-> ""])
                   ELSE messages
    /\ rendered' = ShowImageAndValidation(credit_card_info)
    /\ pc' = "done"
    /\ UNCHANGED <<env, containers, blobs, requests, caller, file, blob_name,
                   use_sas, calls, blob_url, result, credit_card_info,
                   escaped, raised, sign_result, replaced,
                   field_value, field_name, is_valid>>

\* --------------------------------------------------------- direct callers

\* upload_file_to_blob(file, blob_name, use_sas) called on its own
CallUpload ==
    /\ pc = "idle"
    /\ file' \in FileObjects \cup {NoFile}
    /\ blob_name' \in BlobNames
    /\ use_sas' \in BOOLEAN
    /\ caller' = "upload"
    /\ pc' = "u_check"
    /\ UNCHANGED <<env, containers, blobs, requests, calls, blob_url, result,
                   credit_card_info, rendered, messages, escaped,
                   raised, sign_result, replaced,
                   field_value, field_name, is_valid>>

\* analyze_credit_card_image(blob_url) called on its own
CallAnalyze ==
    /\ pc = "idle"
    /\ blob_url' \in {NoUrl, EmptyUrl, GetDirectUrl("set", "set", "card.png")}
    /\ caller' = "analyze"
    /\ pc' = "a_check"
    /\ UNCHANGED <<env, containers, blobs, requests, calls, file, blob_name,
                   use_sas, result, credit_card_info, rendered, messages, escaped,
                   raised, sign_result, replaced,
                   field_value, field_name, is_valid>>

\* The next request of the same process: the provider keeps its state, the
\* request's locals start afresh.
NextRequest ==
    /\ pc = "done"
    /\ requests < MaxRequests
    /\ requests' = requests + 1
    /\ pc' = "idle"
    /\ caller' = "none"
    /\ file' = NoFile
    /\ blob_name' = None
    /\ use_sas' = TRUE
    /\ calls' = <<>>
    /\ blob_url' = NoUrl
    /\ result' = NoResult
    /\ credit_card_info' = <<>>
    /\ rendered' = NotRendered
    /\ messages' = <<>>
    /\ raised' = NotRaised
    /\ escaped' = NoExc
    /\ sign_result' = "not called"
    /\ UNCHANGED <<env, containers, blobs, replaced, field_value, field_name, is_valid>>

\* ---------------------------------------------------------- specification

Init ==
    /\ env \in Envs
    /\ containers = {}
    /\ blobs = <<>>
    /\ requests = 1
    /\ pc = "idle"
    /\ caller = "none"
    /\ file = NoFile
    /\ blob_name = None
    /\ use_sas = TRUE
    /\ calls = <<>>
    /\ blob_url = NoUrl
    /\ result = NoResult
    /\ credit_card_info = <<>>
    /\ rendered = NotRendered
    /\ messages = <<>>
    /\ raised = NotRaised
    /\ escaped = NoExc
    /\ sign_result = "not called"
    /\ replaced = <<>>
    /\ field_value = NoneStr
    /\ field_name = ""
    /\ is_valid = FALSE

Next ==
    \/ HandlerRequest
    \/ CallUpload
    \/ CallAnalyze
    \/ UploadCheck
    \/ UploadEnsureContainer
    \/ UploadBlob
    \/ UploadVerify
    \/ UploadUrl
    \/ HandlerUploaded
    \/ AnalyzeCheck
    \/ AnalyzeClient
    \/ AnalyzeBegin
    \/ AnalyzePoll
    \/ AnalyzeExtract
    \/ HandlerAnalyzed
    \/ NextRequest

Spec == Init /\ [][Next]_vars

\* ------------------------------------------- the functions on their own

\* The values every specification below leaves at rest.
AtRest ==
    /\ env = [k \in EnvKeys |-> "set"]
    /\ containers = {}
    /\ blobs = <<>>
    /\ requests = 1
    /\ file = NoFile
    /\ blob_name = None
    /\ use_sas = TRUE
    /\ calls = <<>>
    /\ rendered = NotRendered
    /\ messages = <<>>
    /\ raised = NotRaised
    /\ escaped = NoExc
    /\ sign_result = "not called"
    /\ replaced = <<>>
    /\ is_valid = FALSE

\* validate_credit_card_field(field_value, field_name) called on its own
FieldCheck ==
    /\ pc = "f_check"
    /\ is_valid' = ValidateCreditCardField(field_value, field_name)
    /\ pc' = "done"
    /\ UNCHANGED <<env, containers, blobs, requests, caller, file, blob_name,
                   use_sas, calls, blob_url, result, credit_card_info, rendered,
                   messages, raised, escaped, sign_result, replaced,
                   field_value, field_name>>

InitField ==
    /\ AtRest
    /\ pc = "f_check"
    /\ caller = "none"
    /\ blob_url = NoUrl
    /\ result = NoResult
    /\ credit_card_info = <<>>
    /\ field_value \in Strings(MaxStrLen) \cup {NoneStr}
    /\ field_name \in SchemaSet \cup {""}

SpecField == InitField /\ [][FieldCheck]_vars

\* The values a field of an extracted mapping is drawn from: empty, blank, set.
MappingValues == {<<>>, <<" ">>, <<"A">>}

\* Extracted mappings over the six fields of the page and one vendor field.
Mappings == Dicts(SchemaSet \cup {VendorField}, MappingValues)

\* show_image_and_validation on every mapping, as the page calls it
InitValidate ==
    /\ AtRest
    /\ pc = "h_analyzed"
    /\ caller = "handler"
    /\ blob_url = GetDirectUrl("set", "set", "card.png")
    /\ result = NoResult
    /\ credit_card_info \in Mappings
    /\ field_value = NoneStr
    /\ field_name = ""

SpecValidate == InitValidate /\ [][HandlerAnalyzed]_vars

\* The results _extract_fields_from_result is run on.
ExtractNames == {"CardNumber", "CardHolderName"}

ExtractResults == AnalysisResults(ExtractNames, {<<>>, <<"A">>, <<"B">>}, MaxDocs)

InitExtract ==
    /\ AtRest
    /\ pc = "a_extract"
    /\ caller = "analyze"
    /\ blob_url = GetDirectUrl("set", "set", "card.png")
    /\ result \in ExtractResults
    /\ credit_card_info = <<>>
    /\ field_value = NoneStr
    /\ field_name = ""

SpecExtract == InitExtract /\ [][AnalyzeExtract]_vars

\* ------------------------------------------------------------- properties

\* The number of the six fields of the page whose value in the mapping is valid.
SchemaValidCount(info) ==
    Cardinality({f \in SchemaSet : ValidateCreditCardField(DictGet(info, f), f)})

\* C1: wherever the page shows the counts of a mapping, the total is six and
\* the valid count is the number of the six schema fields whose value is
\* valid, whatever other fields the mapping carries.
C1_SixSchemaFieldsScored ==
    rendered.banner \in {"success", "partial"} =>
        rendered.card = <<SchemaValidCount(credit_card_info), Len(SchemaFields)>>

\* C2: the status is FULL exactly when all six schema fields are valid, NONE
\* exactly when the mapping is empty, and PARTIAL in every other case.
C2_StatusDerivation ==
    rendered.banner # "not rendered" =>
        rendered.banner =
            IF DOMAIN credit_card_info = {} THEN "none"
            ELSE IF SchemaValidCount(credit_card_info) = Len(SchemaFields)
            THEN "success"
            ELSE "partial"

\* A value that is empty or made of whitespace only.
Blank(value) == \A i \in 1..Len(value) : value[i] \in Whitespace

\* The mapping without the keys in K.
Without(info, K) == [k \in DOMAIN info \ K |-> info[k]]

BlankKeys(info) == {k \in DOMAIN info : Blank(info[k])}

C9_ValidIffNonBlank ==
    pc = "done" =>
        is_valid = (/\ field_value # NoneStr
                    /\ \E i \in 1..Len(field_value) : field_value[i] \notin Whitespace)

\* C9's case: a value with whitespace around one character was found valid,
\* under a field name of the schema.
C9_Witness ==
    /\ pc = "done"
    /\ field_value = <<" ", "A", "\t">>
    /\ field_name = "CardNumber"
    /\ is_valid

\* Document i of the result gives field k a content that is not None.
Provides(i, k) ==
    LET document == result.documents[i]
    IN  /\ document.has_fields
        /\ k \in DOMAIN document.fields
        /\ document.fields[k].has_content
        /\ document.fields[k].content # NoneStr

Providers(k) ==
    IF result.has_documents
    THEN {i \in 1..Len(result.documents) : Provides(i, k)}
    ELSE {}

Last(S) == CHOOSE i \in S : \A j \in S : j <= i

\* C7: a name is a key of the extracted mapping exactly when some document
\* gives it a content that is not None, and its value is the content of the
\* last such document.
C7_LastWriteWins ==
    pc = "done" =>
        /\ DOMAIN credit_card_info = {k \in ExtractNames : Providers(k) # {}}
        /\ \A k \in DOMAIN credit_card_info :
             credit_card_info[k] =
                result.documents[Last(Providers(k))].fields[k].content

\* C7's case: two documents give CardNumber different contents and the
\* mapping holds the second; a field without content is left out.
C7_Witness ==
    /\ pc = "done"
    /\ Providers("CardNumber") = {1, 2}
    /\ result.documents[1].fields["CardNumber"].content = <<"A">>
    /\ result.documents[2].fields["CardNumber"].content = <<"B">>
    /\ credit_card_info["CardNumber"] = <<"B">>
    /\ "CardHolderName" \in DOMAIN result.documents[2].fields
    /\ "CardHolderName" \notin DOMAIN credit_card_info

\* The provider calls of the two services.
StorageCalls == {"create_container", "upload_blob", "get_blob_properties"}

AnalysisCalls == {"begin_analyze_document", "poller.result"}

Issued(kinds) == \E i \in 1..Len(calls) : calls[i] \in kinds

UploadSteps == {"u_check", "u_container", "u_upload", "u_props", "u_url"}

AnalyzeSteps == {"a_check", "a_client", "a_begin", "a_poll", "a_extract"}

\* upload_file_to_blob was called by this request.
UploadCalled == caller \in {"upload", "handler"} /\ pc # "idle"

\* upload_file_to_blob has returned after its upload and its properties
\* fetch both succeeded.
UploadCompleted ==
    /\ UploadCalled
    /\ pc \notin UploadSteps
    /\ Len(calls) >= 3
    /\ calls[3] = "get_blob_properties"
    /\ raised.at # "u_props"

\* analyze_credit_card_image was called by this request and is past its checks.
AnalyzeChecked ==
    \/ caller = "analyze" /\ pc \notin {"idle", "a_check"}
    \/ caller = "handler" /\ pc \in (AnalyzeSteps \ {"a_check"}) \cup {"h_analyzed"}
    \/ caller = "handler" /\ pc = "done" /\ rendered.banner # "not rendered"

C4_EmptyFileNoNetwork ==
    (UploadCalled /\ FileTruthy(file) /\ file.bytes = <<>>) =>
        ~Issued(StorageCalls) /\ ~UrlTruthy(blob_url)

\* C5: once past its checks, an upload with a missing blob name, container
\* name or account name has failed with the configuration error and issued no
\* call at all; an analysis with a missing URL, endpoint or key has failed
\* with the configuration error and issued no analysis call.
C5_ConfigurationBeforeNetwork ==
    /\ ( /\ UploadCalled
         /\ pc # "u_check"
         /\ \/ Falsy(blob_name)
            \/ Falsy(env["AZURE_STORAGE_CONTAINER_NAME"])
            \/ Falsy(env["AZURE_STORAGE_STORAGE_NAME"]) )
        => /\ calls = <<>>
           /\ blob_url = NoUrl
           /\ raised.cls = "ValueError"
           /\ raised.at = "u_check"
    /\ ( /\ AnalyzeChecked
         /\ \/ ~UrlTruthy(blob_url)
            \/ Falsy(env["AZURE_DOCS_ENDPOINT"])
            \/ Falsy(env["AZURE_DOCS_API_KEY"]) )
        => /\ ~Issued(AnalysisCalls)
           /\ DOMAIN credit_card_info = {}
           /\ raised.cls = "ValueError"
           /\ raised.at = "a_check"

\* C5's case: an upload with a file and a name but no container name ended
\* with the configuration error before any call.
C5_Witness ==
    /\ pc = "done"
    /\ caller = "upload"
    /\ FileTruthy(file)
    /\ blob_name = "card.png"
    /\ env["AZURE_STORAGE_CONTAINER_NAME"] = None
    /\ env["AZURE_STORAGE_STORAGE_NAME"] = "set"
    /\ raised.at = "u_check"
    /\ calls = <<>>
    /\ blob_url = NoUrl

\* C6: when the upload and its verification succeeded and the signing
\* credentials are missing or the signing failed, upload returns the direct
\* URL of the blob.
C6_DirectUrlFallback ==
    (UploadCompleted /\ (~SigningConfigured \/ sign_result \in {"ValueError", "Exception"}))
        => blob_url = GetDirectUrl(env["AZURE_STORAGE_STORAGE_NAME"],
                                   env["AZURE_STORAGE_CONTAINER_NAME"], blob_name)

\* C6's case: a signed URL was asked for, the access key is not set, the
\* upload succeeded and the direct URL came back.
C6_Witness ==
    /\ pc = "done"
    /\ caller = "upload"
    /\ use_sas
    /\ env["AZURE_STORAGE_API_KEY"] = None
    /\ UploadCompleted
    /\ blob_url.kind = "direct"
    /\ blob_url.blob = blob_name

\* C10: an upload under a name that already holds a blob is never refused as
\* existing, and once upload has returned after a successful upload the blob
\* its URL names holds the bytes of this upload.
C10_OverwriteSemantics ==
    /\ raised.cls # "ResourceExistsError"
    /\ UploadCompleted =>
         /\ UrlTruthy(blob_url)
         /\ blob_url.blob \in DOMAIN blobs
         /\ blobs[blob_url.blob] = file.bytes

\* C10's case: the second upload of the process replaced other bytes under
\* the same name and its URL resolves to the new ones.
C10_Witness ==
    /\ requests = 2
    /\ pc = "done"
    /\ UploadCompleted
    /\ replaced = << <<1>> >>
    /\ file.bytes = <<2>>
    /\ UrlTruthy(blob_url)
    /\ blobs[blob_url.blob] = <<2>>

\* The low-level texts the provider's exceptions carry.
ProviderTexts == {f.text : f \in ProviderFaults}

\* C11: no message shown to the user carries the text of a provider's
\* exception.
C11_NoProviderTextShown ==
    \A i \in 1..Len(messages) : messages[i].detail \notin ProviderTexts

\* analyze_credit_card_image has returned to the page: it raised and gave the
\* empty mapping, or it polled the result and gave what was extracted from it.
AnalysisReturned ==
    \/ raised.at \in AnalyzeSteps /\ DOMAIN credit_card_info = {}
    \/ /\ Len(calls) > 0
       /\ calls[Len(calls)] = "poller.result"
       /\ raised = NotRaised
       /\ credit_card_info = ExtractFieldsFromResult(result)

\* C12: in a request of the page the analysis starts only after the upload
\* has returned, no storage call follows an analysis call, and the
\* validation is rendered only after the analysis has returned.
C12_StrictlySequential ==
    caller = "handler" =>
        /\ (pc \in AnalyzeSteps \/ Issued(AnalysisCalls)) =>
              /\ UploadCompleted
              /\ UrlTruthy(blob_url)
        /\ \A i, j \in 1..Len(calls) :
              (calls[i] \in AnalysisCalls /\ calls[j] \in StorageCalls) => j < i
        /\ rendered.banner # "not rendered" =>
              /\ pc = "done"
              /\ UploadCompleted
              /\ AnalysisReturned

\* C12's case: a request of the page went through the three storage calls,
\* then the two analysis calls, and then rendered a validated card.
C12_Witness ==
    /\ caller = "handler"
    /\ pc = "done"
    /\ calls = <<"create_container", "upload_blob", "get_blob_properties",
                 "begin_analyze_document", "poller.result">>
    /\ rendered.banner = "success"
    /\ DOMAIN credit_card_info = {"CardNumber"}

\* C13: upload holds a URL only once upload_blob and then the properties
\* fetch of the same blob have been issued and neither raised; a failed
\* properties fetch leaves no URL.
C13_UrlOnlyAfterVerification ==
    /\ (UploadCalled /\ UrlTruthy(blob_url)) =>
          /\ Len(calls) >= 3
          /\ calls[2] = "upload_blob"
          /\ calls[3] = "get_blob_properties"
          /\ raised.at \notin UploadSteps
          /\ blob_url.blob = blob_name
          /\ blob_name \in DOMAIN blobs
    /\ (UploadCalled /\ raised.at = "u_props") =>
          /\ blob_url = NoUrl
          /\ pc \notin UploadSteps

\* C13's case: the blob was stored, its properties fetch failed, and upload
\* returned without a URL.
C13_Witness ==
    /\ caller = "upload"
    /\ pc = "done"
    /\ calls = <<"create_container", "upload_blob", "get_blob_properties">>
    /\ blob_name \in DOMAIN blobs
    /\ raised.at = "u_props"
    /\ raised.cls = "AzureError"
    /\ blob_url = NoUrl

\* The provider call a step issues.
CallOf(step) ==
    CASE step = "u_container" -> "create_container"
      [] step = "u_upload" -> "upload_blob"
      [] step = "u_props" -> "get_blob_properties"
      [] step = "a_begin" -> "begin_analyze_document"
      [] step = "a_poll" -> "poller.result"
      [] OTHER -> "none"

ProviderSteps == {"u_container", "u_upload", "u_props", "a_begin", "a_poll"}

\* C14: a request issues each provider call at most once, and after a call
\* failed the component has returned its failure (no URL, or the empty
\* mapping) and the failed call is the last one issued.
C14_NoRetry ==
    /\ \A i, j \in 1..Len(calls) : calls[i] = calls[j] => i = j
    /\ raised.at \in ProviderSteps =>
          /\ calls[Len(calls)] = CallOf(raised.at)
          /\ pc \notin UploadSteps \cup AnalyzeSteps
          /\ raised.at \in UploadSteps => blob_url = NoUrl
          /\ raised.at \in AnalyzeSteps => DOMAIN credit_card_info = {}

\* C14's case: the submission of the analysis failed in a request of the
\* page; the request ended with nothing detected and no further call.
C14_Witness ==
    /\ caller = "handler"
    /\ pc = "done"
    /\ raised.at = "a_begin"
    /\ raised.cls = "AzureError"
    /\ calls = <<"create_container", "upload_blob", "get_blob_properties",
                 "begin_analyze_document">>
    /\ rendered.banner = "none"

\* C15: under the success banner every one of the six fields is rendered
\* with the valid marker, and a non-empty mapping with a field rendered
\* invalid gets the partial banner.
C15_BannerMatchesMarkers ==
    rendered.banner \in {"success", "partial"} =>
        (rendered.banner = "success"
            <=> \A i \in 1..Len(SchemaFields) : rendered.fields[i].marker = "valid")

\* upload_file_to_blob returned no URL to the page.
UploadGaveNoUrl ==
    /\ caller = "handler"
    /\ pc \in {"h_uploaded", "done"}
    /\ ~UrlTruthy(blob_url)

\* analyze_credit_card_image was entered by this request of the page.
AnalyzeEntered ==
    \/ pc \in AnalyzeSteps \cup {"h_analyzed"}
    \/ raised.at \in AnalyzeSteps
    \/ Issued(AnalysisCalls)
    \/ rendered.banner # "not rendered"

\* C16: when upload gave the page no URL, the analysis is never entered,
\* nothing is rendered and the request ends on the page's upload error box
\* with no success message; the analysis is entered only with the URL the
\* upload of the same request returned for its blob.
C16_NoUrlNoAnalysis ==
    /\ UploadGaveNoUrl =>
          /\ ~AnalyzeEntered
          /\ rendered = NotRendered
          /\ \A i \in 1..Len(messages) :
                messages[i].widget \in {"error", "error-box"}
          /\ pc = "done" =>
                messages[Len(messages)].text = "Erro ao enviar arquivo"
    /\ (caller = "handler" /\ AnalyzeEntered) =>
          /\ UrlTruthy(blob_url)
          /\ UploadCompleted
          /\ blob_url.blob = blob_name
          /\ blob_url.container = env["AZURE_STORAGE_CONTAINER_NAME"]

\* C16's case: the upload of a request of the page failed at the provider
\* and the request ended on the error box, without analysis or rendering.
C16_Witness ==
    /\ caller = "handler"
    /\ pc = "done"
    /\ raised.at = "u_upload"
    /\ blob_url = NoUrl
    /\ calls = <<"create_container", "upload_blob">>
    /\ rendered = NotRendered
    /\ Len(messages) = 2
    /\ messages[2].widget = "error-box"

=============================================================================
